---- MODULE Spec2Model ----
(***************************************************************************)
(* Model of the two pieces of logic of the repository:                     *)
(*   - balanced_split (src/src/utils.py): a single forward pass over a     *)
(*     label sequence that routes every sample to training or validation;  *)
(*   - ECODClassifier (src/pyod_models/ecod.py): the fit / predict /       *)
(*     predict_proba adapter around an external ECOD estimator.            *)
(* Each is explored under its own specification (Spec, SpecECOD).          *)
(***************************************************************************)
EXTENDS Integers, Sequences, FiniteSets, TLC

\* ---------------------------------------------------------------- bounds
MaxLen == 3          \* longest label sequence passed to balanced_split
MaxFits == 3         \* number of fit calls explored on one ECODClassifier

\* 0 = normal, 1 = outlier, 2 = a label outside the binary alphabet
Labels == {0, 1, 2}
LabelSeqs == UNION {[1..n -> Labels] : n \in 0..MaxLen}

\* inputs of the adapter: opaque data sets and constructor arguments
DataSets == {"Xa", "Xb"}
RandomStates == {"None", "0", "1"}

\* ------------------------------------------------------- balanced_split
\* markers the code appends to selected_indices
TRAIN == 0 - 1
VALIDATION == 1

VARIABLES y, print_flag,                       \* arguments of the call
          selected_indices, norm_train, norm_test, out_train, out_test,
          i,                                   \* samples consumed by "for v in y"
          pc,                                  \* position of the call
          printed,                             \* what was written to stdout
          ret,                                 \* the returned list
          has_prev, prev_y, prev_flag, prev_ret  \* the previous completed call

\* ------------------------------------------------------- ECODClassifier
VARIABLES random_state, estimator, next_id, outcome

splitVars == <<y, print_flag, selected_indices, norm_train, norm_test,
               out_train, out_test, i, pc, printed, ret,
               has_prev, prev_y, prev_flag, prev_ret>>
ecodVars == <<random_state, estimator, next_id, outcome>>
vars == <<splitVars, ecodVars>>

\* the locals of one invocation, as a record
Locals ==
  [selected_indices |-> selected_indices, norm_train |-> norm_train,
   norm_test |-> norm_test, out_train |-> out_train, out_test |-> out_test]

\* Mutant: the four counters live outside the function and survive a call.
InitializeCarry(old) ==
  [old EXCEPT !.selected_indices = <<>>]

\* "# Initialize": every invocation starts from an empty list and zero
\* counters, whatever an earlier invocation (old) left behind.
Initialize(old) ==
  [selected_indices |-> <<>>, norm_train |-> 0, norm_test |-> 0,
   out_train |-> 0, out_test |-> 0]

\* Mutant: the pass walks the sequence from its end.
IterValueReversed(yy, k) ==
  yy[Len(yy) + 1 - k]

\* "for v in y": the k-th value the loop visits
IterValue(yy, k) ==
  yy[k]

\* Mutant: every nonzero label counts as an outlier.
IsOutlierNonZero(v) ==
  v >= 1

\* "if v==1: # outlier"
IsOutlier(v) ==
  v = 1

\* Mutant: two outliers are kept for training.
OutlierToTestAfterTwo(st) ==
  st.out_train > 1

\* "if out_train > 0: # one will have to go to train"
OutlierToTest(st) ==
  st.out_train > 0

\* Mutant: non-strict comparison.
NormalToTestGeq(st) ==
  st.out_test >= st.norm_test

\* Mutant: compares against the outliers kept for training.
NormalToTestVsTrain(st) ==
  st.out_train > st.norm_test

\* "if out_test > norm_test:"
NormalToTest(st) ==
  st.out_test > st.norm_test

\* Mutant: the validation branch of an outlier counts it but appends nothing.
LoopBodyNoAppend(st, v) ==
  IF IsOutlier(v)
  THEN IF OutlierToTest(st)
       THEN [st EXCEPT !.out_test = @ + 1]
       ELSE [st EXCEPT !.selected_indices = Append(@, TRAIN),
                       !.out_train = @ + 1]
  ELSE IF NormalToTest(st)
       THEN [st EXCEPT !.selected_indices = Append(@, VALIDATION),
                       !.norm_test = @ + 1]
       ELSE [st EXCEPT !.selected_indices = Append(@, TRAIN),
                       !.norm_train = @ + 1]

\* Mutant: the validation branch of an outlier appends but does not count.
LoopBodyNoCount(st, v) ==
  IF IsOutlier(v)
  THEN IF OutlierToTest(st)
       THEN [st EXCEPT !.selected_indices = Append(@, VALIDATION)]
       ELSE [st EXCEPT !.selected_indices = Append(@, TRAIN),
                       !.out_train = @ + 1]
  ELSE IF NormalToTest(st)
       THEN [st EXCEPT !.selected_indices = Append(@, VALIDATION),
                       !.norm_test = @ + 1]
       ELSE [st EXCEPT !.selected_indices = Append(@, TRAIN),
                       !.norm_train = @ + 1]

\* the body of the loop: one routing decision for the value v
LoopBody(st, v) ==
  IF IsOutlier(v)
  THEN IF OutlierToTest(st)
       THEN [st EXCEPT !.selected_indices = Append(@, VALIDATION),
                       !.out_test = @ + 1]
       ELSE [st EXCEPT !.selected_indices = Append(@, TRAIN),
                       !.out_train = @ + 1]
  ELSE IF NormalToTest(st)
       THEN [st EXCEPT !.selected_indices = Append(@, VALIDATION),
                       !.norm_test = @ + 1]
       ELSE [st EXCEPT !.selected_indices = Append(@, TRAIN),
                       !.norm_train = @ + 1]

SetLocals(st) ==
  /\ selected_indices' = st.selected_indices
  /\ norm_train' = st.norm_train
  /\ norm_test' = st.norm_test
  /\ out_train' = st.out_train
  /\ out_test' = st.out_test

SplitInit ==
  /\ y = <<>>
  /\ print_flag = TRUE
  /\ selected_indices = <<>>
  /\ norm_train = 0
  /\ norm_test = 0
  /\ out_train = 0
  /\ out_test = 0
  /\ i = 0
  /\ pc = "idle"
  /\ printed = <<>>
  /\ ret = <<>>
  /\ has_prev = FALSE
  /\ prev_y = <<>>
  /\ prev_flag = TRUE
  /\ prev_ret = <<>>

\* balanced_split(yy, flag) is entered; a completed earlier call is remembered
Call(yy, flag) ==
  /\ pc \in {"idle", "done"}
  /\ y' = yy
  /\ print_flag' = flag
  /\ SetLocals(Initialize(Locals))
  /\ i' = 0
  /\ printed' = <<>>
  /\ ret' = <<>>
  /\ pc' = "loop"
  /\ IF pc = "done"
     THEN /\ has_prev' = TRUE
          /\ prev_y' = y
          /\ prev_flag' = print_flag
          /\ prev_ret' = ret
     ELSE UNCHANGED <<has_prev, prev_y, prev_flag, prev_ret>>

\* one iteration of "for v in y"
LoopStep ==
  /\ pc = "loop"
  /\ i < Len(y)
  /\ SetLocals(LoopBody(Locals, IterValue(y, i + 1)))
  /\ i' = i + 1
  /\ UNCHANGED <<y, print_flag, pc, printed, ret,
                 has_prev, prev_y, prev_flag, prev_ret>>

\* "if print_flag:" the five summary counts are written
Prints ==
  /\ pc = "loop"
  /\ i = Len(y)
  /\ print_flag
  /\ printed' = <<Len(y), out_train, out_test, norm_train, norm_test>>
  /\ pc' = "return"
  /\ UNCHANGED <<y, print_flag, selected_indices, norm_train, norm_test,
                 out_train, out_test, i, ret,
                 has_prev, prev_y, prev_flag, prev_ret>>

\* print_flag is false: nothing is written
SkipPrints ==
  /\ pc = "loop"
  /\ i = Len(y)
  /\ ~print_flag
  /\ pc' = "return"
  /\ UNCHANGED <<y, print_flag, selected_indices, norm_train, norm_test,
                 out_train, out_test, i, printed, ret,
                 has_prev, prev_y, prev_flag, prev_ret>>

\* "return selected_indices"
Return ==
  /\ pc = "return"
  /\ ret' = selected_indices
  /\ pc' = "done"
  /\ UNCHANGED <<y, print_flag, selected_indices, norm_train, norm_test,
                 out_train, out_test, i, printed,
                 has_prev, prev_y, prev_flag, prev_ret>>

\* ------------------------------------------------------- ECODClassifier
\* self.estimator = None
NoEstimator == [id |-> 0, fitted |-> FALSE, X |-> "None", Y |-> "None"]

NoOutcome == [op |-> "init", raised |-> "none", est |-> 0, X |-> "None"]

\* __init__(random_state)
ECODInit(rs) ==
  /\ random_state = rs
  /\ estimator = NoEstimator
  /\ next_id = 1
  /\ outcome = NoOutcome

\* "self.estimator = ECOD()" then "self.estimator.fit(X, Y)": a new object
\* (identity fresh) that the external fit either trains (ok) or rejects
FitEstimator(old, fresh, X, Y, ok) ==
  [id |-> fresh, fitted |-> ok, X |-> X, Y |-> Y]

\* Mutant: the guard is missing.
IsNoneNever(est) ==
  FALSE

\* "if self.estimator is None:"
IsNone(est) ==
  est = NoEstimator

\* what predict / predict_proba do with the estimator they find
Delegate(op, X) ==
  IF IsNone(estimator)
  THEN [op |-> op, raised |-> "NotImplementedError", est |-> 0, X |-> X]
  ELSE [op |-> op,
        raised |-> IF estimator.fitted THEN "none" ELSE "EstimatorError",
        est |-> estimator.id, X |-> X]

fit(X, Y, ok) ==
  /\ next_id <= MaxFits
  /\ estimator' = FitEstimator(estimator, next_id, X, Y, ok)
  /\ next_id' = next_id + 1
  /\ outcome' = [op |-> "fit",
                 raised |-> IF ok THEN "none" ELSE "EstimatorError",
                 est |-> estimator'.id, X |-> X]
  /\ UNCHANGED random_state

predict(X) ==
  /\ outcome' = Delegate("predict", X)
  /\ UNCHANGED <<random_state, estimator, next_id>>

predict_proba(X) ==
  /\ outcome' = Delegate("predict_proba", X)
  /\ UNCHANGED <<random_state, estimator, next_id>>

\* ------------------------------------------------------- specifications
Init ==
  /\ SplitInit
  /\ ECODInit("None")

Next ==
  \/ \E yy \in LabelSeqs, flag \in BOOLEAN : Call(yy, flag) /\ UNCHANGED ecodVars
  \/ LoopStep /\ UNCHANGED ecodVars
  \/ Prints /\ UNCHANGED ecodVars
  \/ SkipPrints /\ UNCHANGED ecodVars
  \/ Return /\ UNCHANGED ecodVars

Spec == Init /\ [][Next]_vars

InitECOD ==
  /\ SplitInit
  /\ \E rs \in RandomStates : ECODInit(rs)

NextECOD ==
  \/ \E X \in DataSets, Y \in DataSets, ok \in BOOLEAN :
       fit(X, Y, ok) /\ UNCHANGED splitVars
  \/ \E X \in DataSets : predict(X) /\ UNCHANGED splitVars
  \/ \E X \in DataSets : predict_proba(X) /\ UNCHANGED splitVars

SpecECOD == InitECOD /\ [][NextECOD]_vars

\* ------------------------------------------------------------- helpers
Running == pc \in {"loop", "return", "done"}

RECURSIVE Count(_, _)
Count(seq, val) ==
  IF seq = <<>> THEN 0
  ELSE (IF Head(seq) = val THEN 1 ELSE 0) + Count(Tail(seq), val)

IsBinary(yy) == \A k \in 1..Len(yy) : yy[k] \in {0, 1}
HasInvalidLabel(yy) == ~IsBinary(yy)
AllNormal(yy) == \A k \in 1..Len(yy) : yy[k] = 0

\* yy with every label other than 1 replaced by 0
AsNormal(yy) == [k \in 1..Len(yy) |-> IF yy[k] = 1 THEN 1 ELSE 0]

IsPrefix(p, yy) == Len(p) <= Len(yy) /\ SubSeq(yy, 1, Len(p)) = p

\* number of outliers among the first k labels
OutliersUpTo(yy, k) == Cardinality({j \in 1..k : yy[j] = 1})

C2_OnlyFirstOutlierTrains ==
  Running =>
    /\ \A k \in 1..Len(selected_indices) :
         y[k] = 1 =>
           (selected_indices[k] = TRAIN <=> OutliersUpTo(y, k - 1) = 0)
    /\ Cardinality({k \in 1..Len(selected_indices) :
                      y[k] = 1 /\ selected_indices[k] = TRAIN}) <= 1
    /\ out_train <= 1

C2_Witness ==
  /\ pc = "done"
  /\ OutliersUpTo(y, Len(y)) >= 2
  /\ y[1] # 1
  /\ \E k \in 1..Len(ret) : y[k] = 1 /\ ret[k] = TRAIN
  /\ \E k \in 1..Len(ret) : y[k] = 1 /\ ret[k] = VALIDATION

\* C3 as stated: a label outside {0, 1} makes the call fail, so no call on
\* such a sequence ever reaches its return.
C3_InvalidLabelFails ==
  HasInvalidLabel(y) => pc # "done"

\* C3 amended: a label outside {0, 1} does not make the call fail; the call
\* returns one marker per label and routes every such label as a normal
\* sample, i.e. it returns what it returns for the sequence with those
\* labels replaced by 0.
C3_InvalidLabelRoutedAsNormal ==
  (pc = "done" /\ HasInvalidLabel(y)) =>
    /\ Len(ret) = Len(y)
    /\ (has_prev /\ AsNormal(prev_y) = AsNormal(y)) => prev_ret = ret

C3_Witness ==
  /\ pc = "done"
  /\ has_prev
  /\ prev_y = AsNormal(y)
  /\ \E k \in 1..Len(y) : y[k] = 2 /\ ret[k] = VALIDATION
  /\ \E k \in 1..Len(y) : y[k] = 1

\* C4: at return the validation set holds as many normal samples as
\* outliers, for every binary label sequence.
C4_EqualValidationRatio ==
  (pc = "done" /\ IsBinary(y)) => norm_test = out_test

\* C5: after any prefix of k samples the four counters add up to k; they are
\* all zero for the empty input and add up to len(y) at return.
C5_CountersSumToProcessed ==
  Running =>
    /\ out_train + out_test + norm_train + norm_test = i
    /\ Len(selected_indices) = i
    /\ i <= Len(y)
    /\ (pc \in {"return", "done"} =>
          out_train + out_test + norm_train + norm_test = Len(y))
    /\ (Len(y) = 0 =>
          out_train = 0 /\ out_test = 0 /\ norm_train = 0 /\ norm_test = 0)

C5_Witness ==
  /\ pc = "loop"
  /\ i = 2
  /\ Len(y) = 3
  /\ out_train = 1
  /\ out_test = 1

\* C6: a nonempty sequence of normal labels only is assigned to TRAIN
\* throughout; nothing is assigned VALIDATION.
C6_AllNormalAllTrain ==
  (Running /\ Len(y) > 0 /\ AllNormal(y)) =>
    /\ \A k \in 1..Len(selected_indices) : selected_indices[k] = TRAIN
    /\ norm_test = 0
    /\ (pc = "done" =>
          Len(ret) = Len(y) /\ \A k \in 1..Len(ret) : ret[k] = TRAIN)

C6_Witness ==
  /\ pc = "done"
  /\ Len(y) >= 3
  /\ AllNormal(y)
  /\ Len(ret) = Len(y)

\* C7: two invocations on the same label sequence return the same list,
\* whatever print_flag was in either and whatever ran before them.
C7_SameInputSameOutput ==
  (pc = "done" /\ has_prev /\ prev_y = y) => prev_ret = ret

C7_Witness ==
  /\ pc = "done"
  /\ has_prev
  /\ prev_y = y
  /\ prev_flag # print_flag
  /\ Len(y) >= 3
  /\ Count(ret, VALIDATION) >= 1
  /\ Count(ret, TRAIN) >= 1

\* C8: the markers of the first k samples are those returned for the prefix
\* of length k, from the moment the k-th sample is processed and for the rest
\* of the pass (no lookahead, no assignment revisited).
C8_PrefixClosed ==
  (Running /\ has_prev /\ IsPrefix(prev_y, y) /\ i >= Len(prev_y)) =>
    /\ Len(selected_indices) >= Len(prev_y)
    /\ SubSeq(selected_indices, 1, Len(prev_y)) = prev_ret
    /\ (pc = "done" => SubSeq(ret, 1, Len(prev_y)) = prev_ret)

C8_Witness ==
  /\ pc = "done"
  /\ has_prev
  /\ IsPrefix(prev_y, y)
  /\ Len(prev_y) = 2
  /\ Len(y) = 3
  /\ Count(prev_ret, VALIDATION) >= 1
  /\ ret[3] = VALIDATION

====
